---------------------------- MODULE Spec2Model ----------------------------
(***************************************************************************)
(* The Sudoku generator of src/src/sudoku.rs (Sudoku::new and the helpers  *)
(* it calls) and the game state of src/src/main.rs (AppState and the       *)
(* handlers of its buttons) as a state machine.                            *)
(*                                                                         *)
(* The source fixes BLOCK_SIDE = 3 (a 9x9 grid).  Every formula of the     *)
(* source is written in terms of SIDE, CELL_COUNT and BLOCK_SIDE, and the  *)
(* model keeps these formulas literally but instantiates BLOCK_SIDE with 2 *)
(* (a 4x4 grid with 2x2 blocks), the largest size whose search trees can   *)
(* be enumerated exhaustively.                                             *)
(***************************************************************************)
EXTENDS Integers, Sequences, FiniteSets, TLC

\* sudoku.rs:15 has BLOCK_SIDE = 3; the model is instantiated with 2.
BLOCK_SIDE == 2
SIDE == BLOCK_SIDE * BLOCK_SIDE
CELL_COUNT == SIDE * SIDE
MAX_DIFFICULTY_LEVEL == 7
\* sudoku.rs:325  `level * 7`
ZEROS_PER_LEVEL == 7

\* ---- bounds of the model ------------------------------------------------
\* Spec: how many seeds of the two shuffles (the digits of solve_from, the
\* squares of the removal loop) are explored; SpecSolve explores every order
\* of the digits.
MaxSeeds == 3
\* Spec: the highest difficulty level passed to Sudoku::new.
MaxLevel == 2
\* SpecCount: the highest limit passed to count_solutions, and how many cells
\* of the base grid an input has cleared at most.
MaxLimit == 3
MaxEmpty == 4
\* SpecApp: the highest count of failed guesses a game goes to, and the
\* highest value the clock is read at.
MaxFails == 1
MaxSecs == 0

Cells == 0 .. (CELL_COUNT - 1)
Digits == 1 .. SIDE
Idx0 == 0 .. (SIDE - 1)
Blk0 == 0 .. (BLOCK_SIDE - 1)
EmptyGrid == [i \in Cells |-> 0]

Zeros(g) == {i \in Cells : g[i] = 0}

Min(a, b) == IF a <= b THEN a ELSE b

\* ---- grid accessors (arrays are 1-based sequences, array index k is k+1) --
row(g, n) == [k \in 1 .. SIDE |-> g[n * SIDE + (k - 1)]]

\* faulty variant: reads the row instead of the column
col_as_row(g, n) == [k \in 1 .. SIDE |-> g[n * SIDE + (k - 1)]]

col(g, n) == [k \in 1 .. SIDE |-> g[(k - 1) * SIDE + n]]

\* faulty variant: writes the values into row n instead of column n
set_col_row(g, n, vals) ==
  [i \in Cells |-> IF i \div SIDE = n THEN vals[(i % SIDE) + 1] ELSE g[i]]

set_col(g, n, vals) ==
  [i \in Cells |-> IF i % SIDE = n THEN vals[(i \div SIDE) + 1] ELSE g[i]]

\* cell index of the k-th (0-based) cell of block (br, bc), as block/set_block
\* enumerate it: r outer, c inner.
BlockCell(br, bc, k) ==
  (br * BLOCK_SIDE + (k \div BLOCK_SIDE)) * SIDE + (bc * BLOCK_SIDE + (k % BLOCK_SIDE))

block(g, br, bc) == [k \in 1 .. SIDE |-> g[BlockCell(br, bc, k - 1)]]

set_block(g, br, bc, vals) ==
  [i \in Cells |->
     IF \E k \in Idx0 : BlockCell(br, bc, k) = i
       THEN vals[(CHOOSE k \in Idx0 : BlockCell(br, bc, k) = i) + 1]
       ELSE g[i]]

contains(a, v) == \E k \in DOMAIN a : a[k] = v

\* ---- can_place ------------------------------------------------------------
block_origin(idx) ==
  ((idx \div SIDE) \div BLOCK_SIDE) * SIDE * BLOCK_SIDE
    + ((idx % SIDE) \div BLOCK_SIDE) * BLOCK_SIDE

\* faulty variant: the block is not looked at
can_place_no_block(g, idx, value) ==
  /\ \A offset \in Idx0 : g[(idx \div SIDE) * SIDE + offset] # value
  /\ \A rw \in Idx0 : g[rw * SIDE + (idx % SIDE)] # value

can_place(g, idx, value) ==
  LET r == idx \div SIDE
      c == idx % SIDE
      row_start == r * SIDE
  IN  /\ \A offset \in Idx0 : g[row_start + offset] # value
      /\ \A rw \in Idx0 : g[rw * SIDE + c] # value
      /\ \A br \in Blk0 : \A bc \in Blk0 :
            g[block_origin(idx) + bc + br * SIDE] # value

\* ---- is_valid (the check the repository's test applies) --------------------
RECURSIVE Insert(_, _)
Insert(s, x) ==
  IF s = <<>> THEN <<x>>
  ELSE IF x <= Head(s) THEN <<x>> \o s
  ELSE <<Head(s)>> \o Insert(Tail(s), x)

RECURSIVE sort(_)
sort(s) == IF s = <<>> THEN <<>> ELSE Insert(sort(Tail(s)), Head(s))

is_1_to_9(a) == sort(a) = [k \in 1 .. SIDE |-> k]

is_valid(g) ==
  /\ ~ \E i \in Cells : g[i] = 0
  /\ \A r \in Idx0 : is_1_to_9(row(g, r))
  /\ \A c \in Idx0 : is_1_to_9(col(g, c))
  /\ \A br \in Blk0 : \A bc \in Blk0 : is_1_to_9(block(g, br, bc))

\* ---- count_solutions_from / count_solutions / has_unique_solution ---------
\* count_solutions_from works on `&mut self` and calls itself; the model is a
\* recursive function of the place the execution is at, so that every call
\* gets its arguments as values:
\*   "call"   the function is entered with grid g, idx and limit
\*   "for"    the loop `for v in 1..=9` is about to run the round of digit v
\*   "found"  the inner call of the round of digit v has returned `found`
\* The value is the count returned and the grid as the call leaves it.
Grids == [Cells -> 0 .. SIDE]
Counted == [count : Nat, g : Grids]
CallArgs == [at : {"call"}, g : Grids, idx : 0 .. CELL_COUNT, limit : Nat]
ForArgs ==
  [at : {"for"}, g : Grids, idx : Cells, limit : Nat, v : 1 .. SIDE + 1, count : Nat]
FoundArgs ==
  [at : {"found"}, found : Counted, idx : Cells, limit : Nat, v : Digits, count : Nat]

\* faulty variant (helper): the early stop leaves the loop before the digit is taken back
count_steps_no_undo[t \in CallArgs \cup ForArgs \cup FoundArgs] ==
  CASE t.at = "call" /\ t.limit = 0 -> [count |-> 0, g |-> t.g]
    [] t.at = "call" /\ t.limit # 0 /\ t.idx = CELL_COUNT -> [count |-> 1, g |-> t.g]
    [] t.at = "call" /\ t.limit # 0 /\ t.idx # CELL_COUNT /\ t.g[t.idx] # 0 ->
         count_steps_no_undo[[t EXCEPT !.idx = t.idx + 1]]
    [] t.at = "call" /\ t.limit # 0 /\ t.idx # CELL_COUNT /\ t.g[t.idx] = 0 ->
         count_steps_no_undo[[at |-> "for", g |-> t.g, idx |-> t.idx,
                              limit |-> t.limit, v |-> 1, count |-> 0]]
    [] t.at = "for" /\ t.v > SIDE -> [count |-> t.count, g |-> t.g]
    [] t.at = "for" /\ t.v <= SIDE /\ ~can_place(t.g, t.idx, t.v) ->
         count_steps_no_undo[[t EXCEPT !.v = t.v + 1]]
    [] t.at = "for" /\ t.v <= SIDE /\ can_place(t.g, t.idx, t.v) ->
         count_steps_no_undo[
           [at |-> "found",
            found |-> count_steps_no_undo[[at |-> "call",
                                           g |-> [t.g EXCEPT ![t.idx] = t.v],
                                           idx |-> t.idx + 1,
                                           limit |-> t.limit - t.count]],
            idx |-> t.idx, limit |-> t.limit, v |-> t.v, count |-> t.count]]
    [] t.at = "found" /\ t.count + t.found.count >= t.limit ->
         [count |-> t.count + t.found.count, g |-> t.found.g]
    [] t.at = "found" /\ t.count + t.found.count < t.limit ->
         count_steps_no_undo[[at |-> "for", g |-> [t.found.g EXCEPT ![t.idx] = 0],
                              idx |-> t.idx, limit |-> t.limit, v |-> t.v + 1,
                              count |-> t.count + t.found.count]]

count_steps[t \in CallArgs \cup ForArgs \cup FoundArgs] ==
  CASE \* if limit == 0 { return 0; }
       t.at = "call" /\ t.limit = 0 -> [count |-> 0, g |-> t.g]
       \* if idx == CELL_COUNT { return 1; }
    [] t.at = "call" /\ t.limit # 0 /\ t.idx = CELL_COUNT -> [count |-> 1, g |-> t.g]
       \* if self.0[idx] != 0 { return self.count_solutions_from(idx + 1, limit); }
    [] t.at = "call" /\ t.limit # 0 /\ t.idx # CELL_COUNT /\ t.g[t.idx] # 0 ->
         count_steps[[t EXCEPT !.idx = t.idx + 1]]
       \* let mut count = 0; for v in 1i8..=9 { .. }
    [] t.at = "call" /\ t.limit # 0 /\ t.idx # CELL_COUNT /\ t.g[t.idx] = 0 ->
         count_steps[[at |-> "for", g |-> t.g, idx |-> t.idx, limit |-> t.limit,
                      v |-> 1, count |-> 0]]
       \* the loop is through: return count
    [] t.at = "for" /\ t.v > SIDE -> [count |-> t.count, g |-> t.g]
       \* can_place is false: the next round
    [] t.at = "for" /\ t.v <= SIDE /\ ~can_place(t.g, t.idx, t.v) ->
         count_steps[[t EXCEPT !.v = t.v + 1]]
       \* self.0[idx] = v; let found = self.count_solutions_from(idx + 1, limit - count);
    [] t.at = "for" /\ t.v <= SIDE /\ can_place(t.g, t.idx, t.v) ->
         count_steps[
           [at |-> "found",
            found |-> count_steps[[at |-> "call",
                                   g |-> [t.g EXCEPT ![t.idx] = t.v],
                                   idx |-> t.idx + 1,
                                   limit |-> t.limit - t.count]],
            idx |-> t.idx, limit |-> t.limit, v |-> t.v, count |-> t.count]]
       \* count += found; self.0[idx] = 0; if count >= limit { break; }
    [] t.at = "found" /\ t.count + t.found.count >= t.limit ->
         [count |-> t.count + t.found.count, g |-> [t.found.g EXCEPT ![t.idx] = 0]]
    [] t.at = "found" /\ t.count + t.found.count < t.limit ->
         count_steps[[at |-> "for", g |-> [t.found.g EXCEPT ![t.idx] = 0],
                      idx |-> t.idx, limit |-> t.limit, v |-> t.v + 1,
                      count |-> t.count + t.found.count]]

count_solutions_from(g, idx, limit) ==
  count_steps[[at |-> "call", g |-> g, idx |-> idx, limit |-> limit]]

\* what count_solutions(self, limit) returns (ret), the grid it was called on
\* afterwards (self), and the copy afterwards, from the outcome of the call
\* copy.count_solutions_from(0, limit)
OutcomeArgs == [self : Grids, r : Counted]
CountOutcome[t \in OutcomeArgs] ==
  [ret |-> t.r.count, self |-> t.self, copy |-> t.r.g]

\* faulty variant: no copy is taken, and the early stop does not take the digit back
count_solutions_in_place(self, limit) ==
  CountOutcome[[self |-> count_steps_no_undo[[at |-> "call", g |-> self, idx |-> 0,
                                              limit |-> limit]].g,
                r |-> count_steps_no_undo[[at |-> "call", g |-> self, idx |-> 0,
                                           limit |-> limit]]]]

\* faulty variant: the search is allowed one solution more than the limit
count_solutions_one_more(self, limit) ==
  CountOutcome[[self |-> self, r |-> count_solutions_from(self, 0, limit + 1)]]

\* `let mut copy = *self; copy.count_solutions_from(0, limit)`
count_solutions(self, limit) ==
  CountOutcome[[self |-> self, r |-> count_solutions_from(self, 0, limit)]]

\* faulty variant: one solution or more
has_unique_solution_some(self) == count_solutions(self, 2).ret >= 1

has_unique_solution(self) == count_solutions(self, 2).ret = 1


\* ---- the random source ------------------------------------------------------
\* The n smallest elements of a set of integers: the outcomes a draw from S
\* is restricted to when the model bounds the random source to n outcomes.
Lowest(S, n) == {x \in S : Cardinality({y \in S : y < x}) < n}

\* rng().random_range(0..SIDE)
random_range(w) == Lowest(Idx0, w)

\* faulty variant: an array of columns that need not differ
shuffled_array_repeats(w) == [1 .. SIDE -> Lowest(Idx0, w)]

\* shuffled_array_0_to_8(): the permutations of 0..SIDE-1
shuffled_array_0_to_8(w) ==
  {p \in [1 .. SIDE -> Idx0] :
     /\ \A i, j \in 1 .. SIDE : i # j => p[i] # p[j]
     /\ \A i \in 1 .. SIDE :
          p[i] \in Lowest(Idx0 \ {p[j] : j \in 1 .. (i - 1)}, w)}

\* The seed of the two shuffles; FreeSeed stands for every order of the digits.
FreeSeed == 0 - 1

\* shuffled_squares(): a permutation of 0..CELL_COUNT-1.  Under seed q it is
\* i |-> (2q+1)*i + 5q  (mod CELL_COUNT); under FreeSeed the one of seed 0.
SquaresPerm(j) ==
  [i \in 1 .. CELL_COUNT |-> ((2 * j + 1) * (i - 1) + 5 * j) % CELL_COUNT]

shuffled_squares(q) == IF q = FreeSeed THEN SquaresPerm(0) ELSE SquaresPerm(q)

\* digits.shuffle() in solve_from.  Under seed q the frame of cell i gets the
\* digits 1..SIDE rotated left by q * (i mod 5).  The digit the loop places
\* next is the first placeable one of the shuffled array.
DigitOrder(q, i) ==
  [j \in 1 .. SIDE |-> ((j - 1 + q * (i % 5)) % SIDE) + 1]

shuffle_next(q, i, cands) ==
  IF q = FreeSeed THEN cands
  ELSE IF cands = {} THEN {}
  ELSE LET o == DigitOrder(q, i)
           first == CHOOSE j \in 1 .. SIDE :
                      /\ o[j] \in cands
                      /\ \A j2 \in 1 .. (j - 1) : o[j2] \notin cands
       IN  {o[first]}

\* ---- state -------------------------------------------------------------------
VARIABLES
  seed,        \* the seed of the digit shuffles (FreeSeed: any order)
  pc,          \* where Sudoku::new (or the call under test) stands
  level,       \* the argument of Sudoku::new
  s0,          \* self.0, the puzzle grid
  s1,          \* self.1, the solved grid
  idx,         \* solve_from: the argument of the call being entered
  stack,       \* solve_from: the frames standing in their `for` loop
  ret,         \* solve_from: the value being returned
  a,           \* new: the shuffled column array of level 0
  k,           \* new: the loop counter of the running loop
  positions,   \* new: the shuffled squares
  more_zeros,  \* new: the remaining removals
  removed,     \* new: how many cells the removal loop has emptied (history)
  limit,       \* count_solutions: its argument
  count,       \* count_solutions: its result
  arg,         \* count_solutions: the grid as the call found it (history)
  sudoku,        \* AppState: the current puzzle grid (0 = empty)
  solved,        \* AppState: the fully solved grid
  is_clue,       \* AppState: which cells are original clues
  highlight,     \* AppState: the highlight mask
  selected_cell, \* AppState: the selected cell, or None
  fail,          \* AppState: the cell of the last failed guess, or None
  fails,         \* AppState: the number of failed guesses
  collision,     \* AppState: the selected cell conflicts with its peers
  voids,         \* AppState: the number of remaining empty cells
  stopped_time   \* AppState: the frozen elapsed seconds, or None

appVars == <<sudoku, solved, is_clue, highlight, selected_cell, fail, fails,
             collision, voids, stopped_time>>
vars == <<seed, pc, level, s0, s1, idx, stack, ret, a, k, positions, more_zeros,
          removed, limit, count, arg, appVars>>
solveVars == <<idx, stack, ret>>
newVars == <<a, k, positions, more_zeros, removed>>
countVars == <<limit, count, arg>>

\* Option::None of selected_cell, fail and stopped_time
None == 0 - 1

\* No AppState is built yet.
NoApp ==
  /\ sudoku = EmptyGrid
  /\ solved = EmptyGrid
  /\ is_clue = [i \in Cells |-> FALSE]
  /\ highlight = [i \in Cells |-> FALSE]
  /\ selected_cell = None
  /\ fail = None
  /\ fails = 0
  /\ collision = FALSE
  /\ voids = 0
  /\ stopped_time = None

\* Sudoku::new(level) is entered; new_solved has built the all-zero pair and
\* calls solve_from(0).
InitNew(seeds, maxLevel) ==
  /\ NoApp
  /\ seed \in seeds
  /\ pc = "solve_call"
  /\ level \in 0 .. maxLevel
  /\ s0 = EmptyGrid
  /\ s1 = EmptyGrid
  /\ idx = 0
  /\ stack = <<>>
  /\ ret = FALSE
  /\ a = <<>>
  /\ k = 0
  /\ positions = <<>>
  /\ more_zeros = 0
  /\ removed = 0
  /\ limit = 0
  /\ count = 0
  /\ arg = EmptyGrid

\* ---- solve_from ---------------------------------------------------------------
\* A frame standing in its loop is [idx, tried]: tried holds the digits of
\* the shuffled array that were placed and taken back.  A digit that cannot be
\* placed is passed over by the loop without effect, and whether it can be
\* placed does not change while the frame is live, so the next digit the loop
\* places is any placeable digit not tried yet.
Top == stack[Len(stack)]
Pop == SubSeq(stack, 1, Len(stack) - 1)
\* faulty variant: the loop starts over instead of going on
Candidates_restart(g, f) == {v \in Digits : can_place(g, f.idx, v)}

Candidates(g, f) == {v \in Digits \ f.tried : can_place(g, f.idx, v)}

\* entry of solve_from(idx)
SolveCall ==
  /\ pc = "solve_call"
  /\ IF idx = CELL_COUNT
       THEN /\ ret' = TRUE
            /\ pc' = "solve_ret"
            /\ UNCHANGED <<idx, stack>>
       ELSE IF s0[idx] # 0
         THEN /\ idx' = idx + 1
              /\ UNCHANGED <<pc, stack, ret>>
         ELSE /\ stack' = Append(stack, [idx |-> idx, tried |-> {}])
              /\ pc' = "solve_loop"
              /\ UNCHANGED <<idx, ret>>
  /\ UNCHANGED <<seed, level, s0, s1, newVars, countVars, appVars>>

\* the loop places its next digit and recurses
SolvePlace ==
  /\ pc = "solve_loop"
  /\ \E v \in shuffle_next(seed, Top.idx, Candidates(s0, Top)) :
       /\ s0' = [s0 EXCEPT ![Top.idx] = v]
       /\ stack' = [stack EXCEPT ![Len(stack)].tried = @ \cup {v}]
       /\ idx' = Top.idx + 1
  /\ pc' = "solve_call"
  /\ UNCHANGED <<seed, level, s1, ret, newVars, countVars, appVars>>

\* the loop ran out of digits: return false
SolveExhausted ==
  /\ pc = "solve_loop"
  /\ Candidates(s0, Top) = {}
  /\ stack' = Pop
  /\ ret' = FALSE
  /\ pc' = "solve_ret"
  /\ UNCHANGED <<seed, level, s0, s1, idx, newVars, countVars, appVars>>

\* the recursive call returned true: the frame returns true
SolveReturnTrue ==
  /\ pc = "solve_ret"
  /\ stack # <<>>
  /\ ret
  /\ stack' = Pop
  /\ UNCHANGED <<seed, pc, level, s0, s1, idx, ret, newVars, countVars, appVars>>

\* the recursive call returned false: take the digit back, go on with the loop
SolveBacktrack ==
  /\ pc = "solve_ret"
  /\ stack # <<>>
  /\ ~ret
  /\ s0' = [s0 EXCEPT ![Top.idx] = 0]
  /\ pc' = "solve_loop"
  /\ UNCHANGED <<seed, level, s1, idx, stack, ret, newVars, countVars, appVars>>

\* ---- Sudoku::new ---------------------------------------------------------------
\* new_solved returns (the value of solve_from is dropped); s.1 = s.0; the
\* baseline of the level is set up.
Save(w) ==
  /\ pc = "solve_ret"
  /\ stack = <<>>
  /\ s1' = s0
  /\ IF level = 0
       THEN a' \in shuffled_array_0_to_8(w)
       ELSE a' = <<>>
  /\ k' = 0
  /\ pc' = "rows"
  /\ UNCHANGED <<seed, level, s0, solveVars, positions, more_zeros, removed, countVars, appVars>>

\* one round of the row loop of level 0
RowZero ==
  /\ pc = "rows"
  /\ level = 0
  /\ k < SIDE
  /\ s0' = [s0 EXCEPT ![k * SIDE + a[k + 1]] = 0]
  /\ k' = k + 1
  /\ UNCHANGED <<seed, pc, level, s1, solveVars, a, positions, more_zeros, removed, countVars, appVars>>

\* one round of the row loop of a level > 0
RowRandom(w) ==
  /\ pc = "rows"
  /\ level # 0
  /\ k < SIDE
  /\ \E c \in random_range(w) : s0' = [s0 EXCEPT ![k * SIDE + c] = 0]
  /\ k' = k + 1
  /\ UNCHANGED <<seed, pc, level, s1, solveVars, a, positions, more_zeros, removed, countVars, appVars>>

RowsDone ==
  /\ pc = "rows"
  /\ k = SIDE
  /\ pc' = "cols"
  /\ k' = 0
  /\ UNCHANGED <<seed, level, s0, s1, solveVars, a, positions, more_zeros, removed, countVars, appVars>>

\* one round of `for col in 0..SIDE`
ColRepair(w) ==
  /\ pc = "cols"
  /\ k < SIDE
  /\ LET c == col(s0, k)
     IN  IF ~contains(c, 0)
           THEN \E r \in random_range(w) :
                  s0' = set_col(s0, k, [c EXCEPT ![r + 1] = 0])
           ELSE s0' = s0
  /\ k' = k + 1
  /\ UNCHANGED <<seed, pc, level, s1, solveVars, a, positions, more_zeros, removed, countVars, appVars>>

ColsDone ==
  /\ pc = "cols"
  /\ k = SIDE
  /\ pc' = "blocks"
  /\ k' = 0
  /\ UNCHANGED <<seed, level, s0, s1, solveVars, a, positions, more_zeros, removed, countVars, appVars>>

\* one round of `for br .. for bc ..`; k = br * BLOCK_SIDE + bc
BlockRepair(w) ==
  /\ pc = "blocks"
  /\ k < SIDE
  /\ LET br == k \div BLOCK_SIDE
         bc == k % BLOCK_SIDE
         b == block(s0, br, bc)
     IN  IF ~contains(b, 0)
           THEN \E i \in random_range(w) :
                  s0' = set_block(s0, br, bc, [b EXCEPT ![i + 1] = 0])
           ELSE s0' = s0
  /\ k' = k + 1
  /\ UNCHANGED <<seed, pc, level, s1, solveVars, a, positions, more_zeros, removed, countVars, appVars>>

\* `let mut more_zeros = level * 7; let positions = shuffled_squares();`
BlocksDone ==
  /\ pc = "blocks"
  /\ k = SIDE
  /\ more_zeros' = level * ZEROS_PER_LEVEL
  /\ positions' = shuffled_squares(seed)
  /\ removed' = 0
  /\ k' = 0
  /\ pc' = "remove"
  /\ UNCHANGED <<seed, level, s0, s1, solveVars, a, countVars, appVars>>

\* faulty variant: the digit is not put back when uniqueness is lost
RemoveRound_no_revert(g, pos, mz) ==
  LET val == g[pos]
      cleared == [g EXCEPT ![pos] = 0]
  IN  IF val # 0
        THEN IF ~has_unique_solution(cleared)
               THEN [g |-> cleared, mz |-> mz]
               ELSE [g |-> cleared, mz |-> mz - 1]
        ELSE [g |-> g, mz |-> mz]

\* the grid one round of the removal loop leaves, and the new more_zeros
RemoveRound(g, pos, mz) ==
  LET val == g[pos]
      cleared == [g EXCEPT ![pos] = 0]
  IN  IF val # 0
        THEN IF ~has_unique_solution(cleared)
               THEN [g |-> [cleared EXCEPT ![pos] = val], mz |-> mz]
               ELSE [g |-> cleared, mz |-> mz - 1]
        ELSE [g |-> g, mz |-> mz]

\* faulty variant: the loop does not break when more_zeros is 0
Remove_no_break ==
  /\ pc = "remove"
  /\ k < CELL_COUNT
  /\ \E r \in {RemoveRound(s0, positions[k + 1], more_zeros)} :
         /\ s0' = r.g
         /\ more_zeros' = r.mz
         /\ removed' = removed + Cardinality(Zeros(r.g)) - Cardinality(Zeros(s0))
  /\ k' = k + 1
  /\ UNCHANGED <<seed, pc, level, s1, solveVars, a, positions, countVars, appVars>>

\* one round of `for pos in positions`
Remove ==
  /\ pc = "remove"
  /\ k < CELL_COUNT
  /\ more_zeros # 0
  /\ \E r \in {RemoveRound(s0, positions[k + 1], more_zeros)} :
         /\ s0' = r.g
         /\ more_zeros' = r.mz
         /\ removed' = removed + Cardinality(Zeros(r.g)) - Cardinality(Zeros(s0))
  /\ k' = k + 1
  /\ UNCHANGED <<seed, pc, level, s1, solveVars, a, positions, countVars, appVars>>

\* the loop ends (break, or the positions are used up) and new returns s
Return ==
  /\ pc = "remove"
  /\ (k = CELL_COUNT \/ more_zeros = 0)
  /\ pc' = "done"
  /\ UNCHANGED <<seed, level, s0, s1, solveVars, newVars, countVars, appVars>>

\* w: how many outcomes random_range and the level-0 shuffle have
NewStep(w) ==
  \/ SolveCall
  \/ SolvePlace
  \/ SolveExhausted
  \/ SolveReturnTrue
  \/ SolveBacktrack
  \/ Save(w)
  \/ RowZero
  \/ RowRandom(w)
  \/ RowsDone
  \/ ColRepair(w)
  \/ ColsDone
  \/ BlockRepair(w)
  \/ BlocksDone
  \/ Remove
  \/ Return

\* Sudoku::new with every outcome of its own draws, for the solved grids a
\* bounded digit shuffle produces.
Init == InitNew(0 .. (MaxSeeds - 1), Min(MaxLevel, MAX_DIFFICULTY_LEVEL))
Next == NewStep(SIDE)
Spec == Init /\ [][Next]_vars

\* Sudoku::new with every order of the digit shuffles of solve_from and the
\* first outcome of each later draw, run to completion.
InitSolve == InitNew({FreeSeed}, MAX_DIFFICULTY_LEVEL)
NextSolve == NewStep(1)
SpecSolve == InitSolve /\ [][NextSolve]_vars /\ WF_vars(NextSolve)


\* ---- count_solutions called on its own ------------------------------------------
\* The solved grid the inputs are cut from.
BaseGrid ==
  LET t == <<1, 2, 3, 4,  3, 4, 1, 2,  2, 1, 4, 3,  4, 3, 2, 1>>
  IN  [i \in Cells |-> t[i + 1]]

\* The inputs: the base grid with at most MaxEmpty of its cells 1.. cleared and
\* any value, fitting or not, in cell 0; and the base grid with its first n
\* cells cleared, down to the empty grid.
CountInputs ==
  {[i \in Cells |-> IF i = 0 THEN v ELSE IF i \in Z THEN 0 ELSE BaseGrid[i]] :
     v \in 0 .. SIDE,
     Z \in {Y \in SUBSET (Cells \ {0}) : Cardinality(Y) <= MaxEmpty}}
  \cup {[i \in Cells |-> IF i < n THEN 0 ELSE BaseGrid[i]] : n \in 0 .. CELL_COUNT}

InitCount ==
  /\ NoApp
  /\ seed = 0
  /\ pc = "count_call"
  /\ level = 0
  /\ s0 \in CountInputs
  /\ s1 = BaseGrid
  /\ idx = 0
  /\ stack = <<>>
  /\ ret = FALSE
  /\ a = <<>>
  /\ k = 0
  /\ positions = <<>>
  /\ more_zeros = 0
  /\ removed = 0
  /\ limit \in 0 .. MaxLimit
  /\ count = 0
  /\ arg = s0

\* self.count_solutions(limit)
CountSolutions ==
  /\ pc = "count_call"
  /\ \E r \in {count_solutions(s0, limit)} :
         /\ count' = r.ret
         /\ s0' = r.self
  /\ pc' = "counted"
  /\ UNCHANGED <<seed, level, s1, solveVars, newVars, limit, arg, appVars>>

\* self.has_unique_solution()
HasUnique ==
  /\ pc = "counted"
  /\ ret' = has_unique_solution(s0)
  /\ pc' = "checked"
  /\ UNCHANGED <<seed, level, s0, s1, idx, stack, newVars, countVars, appVars>>

NextCount == CountSolutions \/ HasUnique
SpecCount == InitCount /\ [][NextCount]_vars

\* ---- AppState (main.rs) ----------------------------------------------------------
\* One game: AppState::new builds the state from the pair Sudoku::new returns,
\* and the handlers of the cell buttons (select_cell) and of the digit buttons
\* (apply_guess on the selected cell) run in any order.
row_of(index) == index \div SIDE
col_of(index) == index % SIDE
row_start(index) == row_of(index) * SIDE
\* main.rs has its own block_origin, the formula of the one in can_place
block_origin_of(index) ==
  (row_of(index) \div BLOCK_SIDE) * SIDE * BLOCK_SIDE
    + (col_of(index) \div BLOCK_SIDE) * BLOCK_SIDE

\* the fields of the AppState the handlers work on
Self ==
  [sudoku |-> sudoku, solved |-> solved, is_clue |-> is_clue,
   highlight |-> highlight, selected_cell |-> selected_cell, fail |-> fail,
   fails |-> fails, collision |-> collision, voids |-> voids,
   stopped_time |-> stopped_time]

\* AppState::new, given the pair Sudoku::new returned
AppState_new(puzzle, solution) ==
  [sudoku |-> puzzle, solved |-> solution,
   is_clue |-> [i \in Cells |-> puzzle[i] # 0],
   highlight |-> [i \in Cells |-> FALSE],
   selected_cell |-> None, fail |-> None, fails |-> 0, collision |-> FALSE,
   voids |-> Cardinality(Zeros(puzzle)),
   stopped_time |-> None]

\* elapsed: the value start_time.elapsed().as_secs() has when it is read
recompute_voids_and_maybe_stop_timer(self, elapsed) ==
  LET n == Cardinality(Zeros(self.sudoku))
  IN  [self EXCEPT !.voids = n,
                   !.stopped_time = IF n = 0 /\ self.stopped_time = None
                                      THEN elapsed ELSE @]

clear_last_fail(self) ==
  IF self.fail # None
    THEN [self EXCEPT !.sudoku[self.fail] = 0, !.fail = None]
    ELSE self

has_conflict(self, index) ==
  LET value == self.sudoku[index]
  IN  IF value = 0 THEN FALSE
      ELSE \/ \E offset \in Idx0 :
                /\ row_start(index) + offset # index
                /\ self.sudoku[row_start(index) + offset] = value
           \/ \E rw \in Idx0 :
                /\ col_of(index) + rw * SIDE # index
                /\ self.sudoku[col_of(index) + rw * SIDE] = value
           \/ \E br \in Blk0 : \E bc \in Blk0 :
                /\ block_origin_of(index) + bc + br * SIDE # index
                /\ self.sudoku[block_origin_of(index) + bc + br * SIDE] = value

apply_guess(self, index, digit, elapsed) ==
  IF self.is_clue[index] THEN self
  ELSE LET placed == [self EXCEPT !.sudoku[index] = digit]
           counted == recompute_voids_and_maybe_stop_timer(placed, elapsed)
           reset == [counted EXCEPT !.fail = None, !.collision = FALSE]
       IN  IF reset.sudoku[index] # reset.solved[index] /\ has_conflict(reset, index)
             THEN [reset EXCEPT !.collision = TRUE, !.fails = @ + 1, !.fail = index]
             ELSE reset

highlight_row_col_block(self, index) ==
  [self EXCEPT !.highlight =
     [i \in Cells |->
        \/ \E offset \in Idx0 : i = row_start(index) + offset
        \/ \E rw \in Idx0 : i = col_of(index) + rw * SIDE
        \/ \E br \in Blk0 : \E bc \in Blk0 :
             i = block_origin_of(index) + bc + br * SIDE]]

\* faulty variant: a clue cell is selected like any other
select_cell_any(self, index) ==
  highlight_row_col_block([clear_last_fail(self) EXCEPT !.selected_cell = index], index)

select_cell(self, index) ==
  LET cleared == clear_last_fail(self)
      chosen == IF ~cleared.is_clue[index]
                  THEN [cleared EXCEPT !.selected_cell = index]
                  ELSE cleared
  IN  highlight_row_col_block(chosen, index)

\* the handlers leave `r` as the new AppState
Becomes(r) ==
  /\ sudoku' = r.sudoku
  /\ solved' = r.solved
  /\ is_clue' = r.is_clue
  /\ highlight' = r.highlight
  /\ selected_cell' = r.selected_cell
  /\ fail' = r.fail
  /\ fails' = r.fails
  /\ collision' = r.collision
  /\ voids' = r.voids
  /\ stopped_time' = r.stopped_time

genVars == <<seed, level, s0, s1, solveVars, newVars, countVars>>

\* AppState::new once Sudoku::new has returned
AppNew ==
  /\ pc = "done"
  /\ Becomes(AppState_new(s0, s1))
  /\ pc' = "app"
  /\ UNCHANGED genVars

\* a cell button is pressed
SelectCell ==
  /\ pc = "app"
  /\ \E index \in Cells : \E r \in {select_cell(Self, index)} : Becomes(r)
  /\ UNCHANGED <<pc, genVars>>

\* a digit button is pressed: `if let Some(index) = state.selected_cell`
DigitButton ==
  /\ pc = "app"
  /\ selected_cell # None
  /\ \E digit \in Digits : \E elapsed \in 0 .. MaxSecs :
       \E r \in {apply_guess(Self, selected_cell, digit, elapsed)} :
         /\ r.fails <= MaxFails
         /\ Becomes(r)
  /\ UNCHANGED <<pc, genVars>>

\* AppState::difficulty: the games of the model are played at level 0, whose
\* puzzles are the ones small enough for every game on them to be gone
\* through (the slider and the New Game button are not part of a game).
difficulty == 0

\* One game on the puzzle Sudoku::new(difficulty) makes with the first outcome
\* of each of its draws, for every seed of the shuffles.
InitApp == InitNew(0 .. (MaxSeeds - 1), difficulty)
\* The steps of Sudoku::new(0): the rounds of the higher levels (RowRandom,
\* Remove) do not run at level 0.
NewStep0 ==
  \/ SolveCall
  \/ SolvePlace
  \/ SolveExhausted
  \/ SolveReturnTrue
  \/ SolveBacktrack
  \/ Save(1)
  \/ RowZero
  \/ RowsDone
  \/ ColRepair(1)
  \/ ColsDone
  \/ BlockRepair(1)
  \/ BlocksDone
  \/ Return
NextApp == NewStep0 \/ AppNew \/ SelectCell \/ DigitButton
SpecApp == InitApp /\ [][NextApp]_vars

\* ---- the rules of Sudoku, stated on their own -------------------------------------
RowCells(r) == {r * SIDE + c : c \in Idx0}
ColCells(c) == {r * SIDE + c : r \in Idx0}
BlkCells(b) ==
  {((b \div BLOCK_SIDE) * BLOCK_SIDE + dr) * SIDE + (b % BLOCK_SIDE) * BLOCK_SIDE + dc :
     dr \in Blk0, dc \in Blk0}
Units == {RowCells(r) : r \in Idx0} \cup {ColCells(c) : c \in Idx0}
           \cup {BlkCells(b) : b \in Idx0}

\* every unit holds every digit exactly once
Solved(g) ==
  \A u \in Units : \A d \in Digits : Cardinality({i \in u : g[i] = d}) = 1

\* no digit stands twice in a unit
Consistent(g) ==
  \A u \in Units : \A i \in u : \A j \in u : (i # j /\ g[i] # 0) => g[i] # g[j]

DigitPerms == {p \in [1 .. SIDE -> Digits] : \A i, j \in 1 .. SIDE : i # j => p[i] # p[j]}
\* pairs of rows that do not clash in a column
RowPairs == {pq \in DigitPerms \X DigitPerms : \A c \in 1 .. SIDE : pq[1][c] # pq[2][c]}
GridOfRows(rs) == [i \in Cells |-> rs[(i \div SIDE) + 1][(i % SIDE) + 1]]
\* All solved grids (BLOCK_SIDE = 2: four rows).
SolvedGrids ==
  {g \in {GridOfRows(<<u[1], u[2], v[1], v[2]>>) : u \in RowPairs, v \in RowPairs} :
     Solved(g)}

\* the completions of a grid: the solved grids that agree with its filled cells
Completions(g) == {f \in SolvedGrids : \A i \in Cells : g[i] # 0 => f[i] = g[i]}
N(g) == Cardinality(Completions(g))


\* ---- properties ------------------------------------------------------------------
AfterSave == pc \in {"rows", "cols", "blocks", "remove", "done"}
Returned == pc = "solve_ret" /\ stack = <<>>
\* the positions the removal loop has gone through
Visited == {positions[j] : j \in 1 .. k}
ZerosIn(g, u) == Zeros(g) \cap u

\* C1: the puzzle Sudoku::new returns has exactly one completion under the
\* rules of Sudoku, that completion is the returned solution grid, and
\* count_solutions(puzzle, 2) is 1.
C1_UniqueAtReturn ==
  pc = "done" =>
    /\ Completions(s0) = {s1}
    /\ count_solutions(s0, 2).ret = 1

\* a returned puzzle of level 1 in whose making the loop removed a clue and
\* put another one back
C1_Witness ==
  /\ pc = "done"
  /\ level = 1
  /\ removed > 0
  /\ \E p \in Visited : s0[p] # 0

\* C2: the grid solve_from(0) leaves to new_solved has no zero and every row,
\* column and block holds each digit exactly once (is_valid, the check of
\* the repository's test, accepts it).
C2_SolvedIsValid ==
  Returned => (Zeros(s0) = {} /\ Solved(s0) /\ is_valid(s0))

\* a grid returned after shuffles that put the highest digit first
C2_Witness ==
  /\ Returned
  /\ s0[0] = SIDE
  /\ s0[CELL_COUNT - 1] = SIDE

\* C3: from the saving of the solution on, every non-zero cell of the puzzle
\* grid equals the same cell of the solution grid, and the solution grid never
\* changes.
C3_ClueFidelity ==
  /\ [](AfterSave => \A i \in Cells : s0[i] # 0 => s0[i] = s1[i])
  /\ [][AfterSave => s1' = s1]_vars

\* the repairs are over and have emptied cells beyond the one per row
C3_Witness ==
  /\ pc = "remove"
  /\ k = 0
  /\ Cardinality(Zeros(s0)) > SIDE + 1
  /\ Zeros(s1) = {}

C5_GridUnchanged == pc # "count_call" => s0 = arg

\* a call on a grid with more completions than the limit: the count stopped
\* early
C5_Witness ==
  /\ pc = "counted"
  /\ limit > 0
  /\ N(arg) > limit
  /\ count = limit

\* C6 as stated: the puzzle Sudoku::new(0) returns has exactly SIDE empty
\* cells, one in each row and one in each column.
C6_Level0OnePerRowAndColumn ==
  (pc = "done" /\ level = 0) =>
    /\ Cardinality(Zeros(s0)) = SIDE
    /\ \A r \in Idx0 : Cardinality(ZerosIn(s0, RowCells(r))) = 1
    /\ \A c \in Idx0 : Cardinality(ZerosIn(s0, ColCells(c))) = 1

\* the cells the level-0 baseline empties
BaselineCells == {r * SIDE + a[r + 1] : r \in Idx0}
\* the blocks none of them lies in
BlocksMissed == {b \in Idx0 : BlkCells(b) \cap BaselineCells = {}}

\* C6 as amended: in Sudoku::new(0) the baseline leaves exactly SIDE empty
\* cells, one in each row and one in each column; the returned puzzle has
\* these and one more empty cell in each block that held none of them, so at
\* least one in each row and in each column.
C6_Level0Shape ==
  level = 0 =>
    /\ (pc = "rows" /\ k = SIDE) =>
         /\ Zeros(s0) = BaselineCells
         /\ Cardinality(Zeros(s0)) = SIDE
         /\ \A r \in Idx0 : Cardinality(ZerosIn(s0, RowCells(r))) = 1
         /\ \A c \in Idx0 : Cardinality(ZerosIn(s0, ColCells(c))) = 1
    /\ pc = "done" =>
         /\ BaselineCells \subseteq Zeros(s0)
         /\ Cardinality(Zeros(s0)) = SIDE + Cardinality(BlocksMissed)
         /\ \A b \in BlocksMissed : Cardinality(ZerosIn(s0, BlkCells(b))) = 1
         /\ \A r \in Idx0 : Cardinality(ZerosIn(s0, RowCells(r))) >= 1
         /\ \A c \in Idx0 : Cardinality(ZerosIn(s0, ColCells(c))) >= 1

\* a returned puzzle of level 0 with a repaired block
C6_Witness ==
  /\ pc = "done"
  /\ level = 0
  /\ BlocksMissed # {}
  /\ Cardinality(Zeros(s0)) > SIDE

\* C7: solve_from(0) on the empty grid returns, and returns true with no
\* empty cell left, under every order of the shuffles; Sudoku::new returns
\* for every level.
C7_Terminates ==
  /\ <>(pc = "done")
  /\ [](Returned => (ret /\ Zeros(s0) = {}))

\* Sudoku::new(7) has returned, its solve_from having returned true
C7_Witness ==
  /\ pc = "done"
  /\ level = MAX_DIFFICULTY_LEVEL
  /\ ret
  /\ Zeros(s1) = {}

\* C8: a round of the removal loop on a filled cell leaves the cell empty and
\* takes one off more_zeros if the grid without it has exactly one completion,
\* and otherwise leaves grid and more_zeros as they were; no other cell
\* changes; a round on an empty cell changes nothing.
C8_RemovalRound ==
  [][(pc = "remove" /\ k' = k + 1) =>
       LET pos == positions[k + 1]
           without == [s0 EXCEPT ![pos] = 0]
       IN  IF s0[pos] # 0 /\ N(without) = 1
             THEN s0' = without /\ more_zeros' = more_zeros - 1
             ELSE s0' = s0 /\ more_zeros' = more_zeros]_vars

\* the loop stands after a round that put its digit back, having removed
\* another one before
C8_Witness ==
  /\ pc = "remove"
  /\ k > 0
  /\ s0[positions[k]] # 0
  /\ s1[positions[k]] = s0[positions[k]]
  /\ more_zeros < level * ZEROS_PER_LEVEL

\* C9: the removal loop goes through no position twice, empties at most
\* level * 7 cells, none at level 0, and ends with exactly level * 7 cells
\* emptied or with every position gone through.
C9_RemovalLoopBounds ==
  pc \in {"remove", "done"} =>
    /\ k <= CELL_COUNT
    /\ Cardinality(Visited) = k
    /\ removed <= level * ZEROS_PER_LEVEL
    /\ level = 0 => removed = 0
    /\ pc = "done" => (removed = level * ZEROS_PER_LEVEL \/ k = CELL_COUNT)

\* the loop of level 1 has ended early, its 7 cells emptied
C9_Witness ==
  /\ pc = "done"
  /\ level = 1
  /\ removed = ZEROS_PER_LEVEL
  /\ k < CELL_COUNT

\* C10: once the repairs are over, and in the returned puzzle, every row,
\* column and block has an empty cell; the repair of a column or block that
\* has an empty cell leaves the grid as it is.
C10_Coverage ==
  /\ [](pc \in {"remove", "done"} => \A u \in Units : ZerosIn(s0, u) # {})
  /\ [][(pc = "cols" /\ k < SIDE /\ ZerosIn(s0, ColCells(k)) # {}) => s0' = s0]_vars
  /\ [][(pc = "blocks" /\ k < SIDE /\ ZerosIn(s0, BlkCells(k)) # {}) => s0' = s0]_vars

\* a level above 0: the repairs are over and a column had to be repaired
\* (a row holds two empty cells)
C10_Witness ==
  /\ pc = "remove"
  /\ k = 0
  /\ level > 0
  /\ \E r \in Idx0 : Cardinality(ZerosIn(s0, RowCells(r))) > 1
  /\ \E c \in Idx0 : Cardinality(ZerosIn(s0, ColCells(c))) = 1


\* the cells the player has filled
Guessed == {i \in Cells : ~is_clue[i] /\ sudoku[i] # 0}

\* C11: in a game, every cell that is not empty in the generated puzzle holds
\* the digit the puzzle gave it, is_clue marks exactly these cells as it did
\* when the game began, and the selected cell, if there is one, is not a clue.
C11_CluesKept ==
  pc = "app" =>
    /\ \A i \in Cells : s0[i] # 0 => sudoku[i] = s0[i]
    /\ is_clue = [i \in Cells |-> s0[i] # 0]
    /\ selected_cell # None => ~is_clue[selected_cell]

\* a failed guess was cleared by a click on a clue cell away from the
\* selected cell, with another guess standing in the grid
C11_Witness ==
  /\ pc = "app"
  /\ fails > 0
  /\ fail = None
  /\ selected_cell # None
  /\ sudoku[selected_cell] = 0
  /\ ~highlight[selected_cell]
  /\ Guessed # {}

\* C12: in a game, voids is the number of empty cells of the current grid.
C12_VoidsIsZeroCount ==
  pc = "app" => voids = Cardinality(Zeros(sudoku))

\* C13: in a game, stopped_time is set exactly when every cell of the current
\* grid equals the same cell of the stored solution.
C13_StoppedIffSolved ==
  pc = "app" => (stopped_time # None <=> sudoku = solved)

=============================================================================
